---- MODULE Spec2Model ----
(***************************************************************************)
(* Model of src/functions/product-updated-http.ts: the product-updated     *)
(* HTTP sink.  It has one pure validator (validatePayload, with its helper *)
(* isIsoDateString) and one handler (productUpdatedHttpHandler).           *)
(*                                                                         *)
(* Text is a tuple of one-character strings, so that trimming, parsing a   *)
(* date and serialising it back are computed on the characters.            *)
(***************************************************************************)
EXTENDS Integers, Sequences, FiniteSets, TLC

VARIABLES
    request,   \* the HttpRequest of the latest invocation
    body,      \* handler local `body` (line 63)
    errors,    \* validatePayload local `errors` (line 25)
    result,    \* handler local `result` (line 74)
    response,  \* the HttpResponseInit the invocation returned
    log,       \* what the invocation's InvocationContext was told to log
    tza,       \* the host's local time zone offset in minutes (read by Date)
    memo       \* history: the first response given to each tracked request

vars == <<request, body, errors, result, response, log, tza, memo>>

(***************************************************************************)
(* Values a JSON body decodes to, and the value `undefined` a missing      *)
(* property reads as.  A number is n/d, or an infinity of sign n (the      *)
(* double a literal outside the range of doubles, such as 1e999, decodes   *)
(* to).  An object is a function from the names of its properties.         *)
(***************************************************************************)
Undefined == [t |-> "undefined"]
Null == [t |-> "null"]
Bool(b) == [t |-> "boolean", b |-> b]
Num(n, d) == [t |-> "number", k |-> "finite", n |-> n, d |-> d]
Inf(sign) == [t |-> "number", k |-> "infinite", n |-> sign, d |-> 1]
Str(s) == [t |-> "string", s |-> s]
Arr(a) == [t |-> "array", a |-> a]
Obj(o) == [t |-> "object", o |-> o]

\* typeof value
TypeOf(v) ==
    CASE v.t = "undefined" -> "undefined"
      [] v.t = "null" -> "object"
      [] v.t = "boolean" -> "boolean"
      [] v.t = "number" -> "number"
      [] v.t = "string" -> "string"
      [] v.t = "array" -> "object"
      [] v.t = "object" -> "object"

\* !value
Falsy(v) ==
    CASE v.t = "undefined" -> TRUE
      [] v.t = "null" -> TRUE
      [] v.t = "boolean" -> ~v.b
      [] v.t = "number" -> v.k = "finite" /\ v.n = 0
      [] v.t = "string" -> v.s = <<>>
      [] OTHER -> FALSE

\* body.key as the destructuring of line 30 reads it
Get(v, key) ==
    IF v.t = "object" /\ key \in DOMAIN v.o THEN v.o[key] ELSE Undefined

WhiteSpace == {" ", "\t"}

\* mutant: the emptiness check without trim()
TrimNothing(s) == s

RECURSIVE TrimStart(_)
TrimStart(s) ==
    IF s # <<>> /\ Head(s) \in WhiteSpace THEN TrimStart(Tail(s)) ELSE s

RECURSIVE TrimEnd(_)
TrimEnd(s) ==
    IF s # <<>> /\ s[Len(s)] \in WhiteSpace
    THEN TrimEnd(SubSeq(s, 1, Len(s) - 1))
    ELSE s

\* String.prototype.trim
Trim(s) == TrimEnd(TrimStart(s))

\* mutant: any finite number passes for an integer
NumberIsIntegerAnyFinite(v) == v.k = "finite"

\* Number.isInteger
NumberIsInteger(v) == v.k = "finite" /\ v.n % v.d = 0

\* value < 0
LessThanZero(v) == v.n < 0

(***************************************************************************)
(* Date.  A time value is NaN or a number of milliseconds since the epoch, *)
(* kept as Day(t) and TimeWithinDay(t) (ECMA-262 21.4.1.3).                *)
(***************************************************************************)
NaN == [nan |-> TRUE, day |-> 0, ms |-> 0]
Time(day, ms) == [nan |-> FALSE, day |-> day, ms |-> ms]

Digits == {"0", "1", "2", "3", "4", "5", "6", "7", "8", "9"}

DigitVal(c) ==
    CASE c = "0" -> 0 [] c = "1" -> 1 [] c = "2" -> 2 [] c = "3" -> 3
      [] c = "4" -> 4 [] c = "5" -> 5 [] c = "6" -> 6 [] c = "7" -> 7
      [] c = "8" -> 8 [] c = "9" -> 9

DigitChar(n) ==
    CASE n = 0 -> "0" [] n = 1 -> "1" [] n = 2 -> "2" [] n = 3 -> "3"
      [] n = 4 -> "4" [] n = 5 -> "5" [] n = 6 -> "6" [] n = 7 -> "7"
      [] n = 8 -> "8" [] n = 9 -> "9"

\* s[i .. i+n-1] are all digits
IsDigits(s, i, n) ==
    /\ i + n - 1 <= Len(s)
    /\ \A j \in i..(i + n - 1) : s[j] \in Digits

RECURSIVE NumAt(_, _, _)
NumAt(s, i, n) ==
    IF n = 0 THEN 0 ELSE 10 * NumAt(s, i, n - 1) + DigitVal(s[i + n - 1])

\* n as w decimal digits, zero-padded
RECURSIVE Padded(_, _)
Padded(n, w) ==
    IF w = 0 THEN <<>> ELSE Padded(n \div 10, w - 1) \o <<DigitChar(n % 10)>>

IsLeap(y) == (y % 4 = 0 /\ y % 100 # 0) \/ y % 400 = 0

\* day number of 1 January of year y (ECMA-262 DayFromYear)
DayFromYear(y) ==
    365 * (y - 1970) + ((y - 1969) \div 4) - ((y - 1901) \div 100)
        + ((y - 1601) \div 400)

DaysInMonth(y, m) ==
    CASE m \in {1, 3, 5, 7, 8, 10, 12} -> 31
      [] m \in {4, 6, 9, 11} -> 30
      [] m = 2 -> IF IsLeap(y) THEN 29 ELSE 28

\* days of year y before its month m (the thresholds of ECMA-262 MonthFromTime)
DaysBeforeMonth(y, m) ==
    <<0, 31, 59, 90, 120, 151, 181, 212, 243, 273, 304, 334>>[m]
        + (IF m > 2 /\ IsLeap(y) THEN 1 ELSE 0)

\* ECMA-262 MakeDay: a date past the end of its month runs into the next
MakeDay(y, m, d) == DayFromYear(y) + DaysBeforeMonth(y, m) + d - 1

MsPerDay == 24 * 60 * 60 * 1000
MaxDay == 100000000

\* ECMA-262 TimeClip on MakeDate(day, ms): |t| <= 8.64e15
TimeClip(day, ms) ==
    LET d == day + (ms \div MsPerDay)
        r == ms % MsPerDay
    IN  IF d < -MaxDay \/ d > MaxDay \/ (d = MaxDay /\ r > 0)
        THEN NaN
        ELSE Time(d, r)

\* ECMA-262 YearFromTime
YearFromDay(day) ==
    LET era == day \div 146097
        rem == day % 146097
        est == 1970 + 400 * era + ((rem * 400) \div 146097)
    IN  CHOOSE y \in (est - 2)..(est + 2) :
            DayFromYear(y) <= day /\ day < DayFromYear(y + 1)

MonthFromDay(y, dayInYear) ==
    CHOOSE m \in 1..12 :
        /\ DaysBeforeMonth(y, m) <= dayInYear
        /\ dayInYear < DaysBeforeMonth(y, m) + DaysInMonth(y, m)

(***************************************************************************)
(* new Date(text), for text in the ECMAScript date time string format      *)
(* (ECMA-262 21.4.1.32): YYYY[-MM[-DD]] or a signed six-digit year, then   *)
(* optionally THH:mm[:ss[.sss]] and Z or a +HH:mm / -HH:mm offset.  A date *)
(* without a time is UTC, a time without an offset is local time (tz).     *)
(* Element ranges are the ones Node's parser enforces: month 1..12, day    *)
(* 1..31 (a day past the end of the month runs over through MakeDay),      *)
(* hour 24 only as 24:00:00.000.  Any other text is NaN here: whatever an  *)
(* engine's fallback parser makes of it, it does not have the shape        *)
(* toISOString writes.                                                     *)
(***************************************************************************)
\* the time value of the parsed fields f, read at `offset` minutes from UTC
MakeTimeValue(f, offset) ==
    IF /\ f.m \in 1..12
       /\ f.d \in 1..31
       /\ f.hh \in 0..24
       /\ f.mi \in 0..59
       /\ f.ss \in 0..59
       /\ f.hh = 24 => (f.mi = 0 /\ f.ss = 0 /\ f.ms = 0)
    THEN TimeClip(MakeDay(f.y, f.m, f.d),
                  f.hh * 3600000 + f.mi * 60000 + f.ss * 1000 + f.ms
                      - offset * 60000)
    ELSE NaN

\* from index p: nothing (local time), Z, or +HH:mm / -HH:mm
ParseZone(s, p, f, tz) ==
    IF p > Len(s) THEN MakeTimeValue(f, tz)
    ELSE IF s[p] = "Z" /\ Len(s) = p THEN MakeTimeValue(f, 0)
    ELSE IF /\ s[p] \in {"+", "-"}
            /\ Len(s) = p + 5
            /\ IsDigits(s, p + 1, 2)
            /\ s[p + 3] = ":"
            /\ IsDigits(s, p + 4, 2)
            /\ NumAt(s, p + 1, 2) \in 0..23
            /\ NumAt(s, p + 4, 2) \in 0..59
    THEN MakeTimeValue(f,
            (IF s[p] = "-" THEN -1 ELSE 1)
                * (NumAt(s, p + 1, 2) * 60 + NumAt(s, p + 4, 2)))
    ELSE NaN

\* from index p: optional .sss
ParseMillis(s, p, f, tz) ==
    IF p <= Len(s) /\ s[p] = "."
    THEN IF IsDigits(s, p + 1, 3)
         THEN ParseZone(s, p + 4, [f EXCEPT !.ms = NumAt(s, p + 1, 3)], tz)
         ELSE NaN
    ELSE ParseZone(s, p, f, tz)

\* from index p: optional :ss
ParseSeconds(s, p, f, tz) ==
    IF p <= Len(s) /\ s[p] = ":"
    THEN IF IsDigits(s, p + 1, 2)
         THEN ParseMillis(s, p + 3, [f EXCEPT !.ss = NumAt(s, p + 1, 2)], tz)
         ELSE NaN
    ELSE ParseZone(s, p, f, tz)

\* from index p: nothing (a date alone is UTC), or THH:mm and what follows
ParseTime(s, p, f, tz) ==
    IF p > Len(s) THEN MakeTimeValue(f, 0)
    ELSE IF /\ s[p] = "T"
            /\ IsDigits(s, p + 1, 2)
            /\ p + 3 <= Len(s)
            /\ s[p + 3] = ":"
            /\ IsDigits(s, p + 4, 2)
    THEN ParseSeconds(s, p + 6,
            [f EXCEPT !.hh = NumAt(s, p + 1, 2), !.mi = NumAt(s, p + 4, 2)],
            tz)
    ELSE NaN

\* from index p: optional -DD
ParseDay(s, p, f, tz) ==
    IF p <= Len(s) /\ s[p] = "-"
    THEN IF IsDigits(s, p + 1, 2)
         THEN ParseTime(s, p + 3, [f EXCEPT !.d = NumAt(s, p + 1, 2)], tz)
         ELSE NaN
    ELSE ParseTime(s, p, f, tz)

\* from index p: optional -MM and what follows
ParseMonth(s, p, f, tz) ==
    IF p <= Len(s) /\ s[p] = "-"
    THEN IF IsDigits(s, p + 1, 2)
         THEN ParseDay(s, p + 3, [f EXCEPT !.m = NumAt(s, p + 1, 2)], tz)
         ELSE NaN
    ELSE ParseTime(s, p, f, tz)

\* the fields of a date YYYY alone
YearOnly(y) ==
    [y |-> y, m |-> 1, d |-> 1, hh |-> 0, mi |-> 0, ss |-> 0, ms |-> 0]

DateParse(s, tz) ==
    IF s # <<>> /\ s[1] \in {"+", "-"}
    THEN IF IsDigits(s, 2, 6) /\ ~(s[1] = "-" /\ NumAt(s, 2, 6) = 0)
         THEN ParseMonth(s, 8,
                YearOnly((IF s[1] = "-" THEN -1 ELSE 1) * NumAt(s, 2, 6)), tz)
         ELSE NaN
    ELSE IF IsDigits(s, 1, 4)
         THEN ParseMonth(s, 5, YearOnly(NumAt(s, 1, 4)), tz)
         ELSE NaN

\* Date.prototype.toISOString of a time value that is not NaN
ToISOString(t) ==
    LET y == YearFromDay(t.day)
        dayInYear == t.day - DayFromYear(y)
        m == MonthFromDay(y, dayInYear)
        d == dayInYear - DaysBeforeMonth(y, m) + 1
        hh == t.ms \div 3600000
        mi == (t.ms \div 60000) % 60
        ss == (t.ms \div 1000) % 60
        ms == t.ms % 1000
        year ==
            IF y >= 0 /\ y <= 9999 THEN Padded(y, 4)
            ELSE IF y < 0 THEN <<"-">> \o Padded(-y, 6)
            ELSE <<"+">> \o Padded(y, 6)
    IN  year \o <<"-">> \o Padded(m, 2) \o <<"-">> \o Padded(d, 2) \o <<"T">>
            \o Padded(hh, 2) \o <<":">> \o Padded(mi, 2) \o <<":">>
            \o Padded(ss, 2) \o <<".">> \o Padded(ms, 3) \o <<"Z">>

\* mutant: the date only has to parse, without the comparison of line 11
isIsoDateStringParsesOnly(value, tz) ==
    IF TypeOf(value) # "string" THEN FALSE
    ELSE ~DateParse(value.s, tz).nan

\* isIsoDateString, lines 8-12
isIsoDateString(value, tz) ==
    IF TypeOf(value) # "string" THEN FALSE
    ELSE LET date == DateParse(value.s, tz)
         IN  ~date.nan /\ value.s = ToISOString(date)

(***************************************************************************)
(* validatePayload, lines 22-56                                            *)
(***************************************************************************)
BodyMsg == "Body must be a JSON object."
IdMsg == "id must be a non-empty string"
NameMsg == "name must be a non-empty string"
PriceMsg == "pricePence must be a non-negative integer"
DescriptionMsg == "description must be a string"
UpdatedAtMsg == "updatedAt must be an ISO 8601 string (Date.toISOString)"

\* the guard of line 26
NotAnObject(b) == Falsy(b) \/ TypeOf(b) # "object"

\* mutant: validation stops at the first violated rule
FieldErrorsFailFast(b, tz) ==
    IF TypeOf(Get(b, "id")) # "string" \/ Len(Trim(Get(b, "id").s)) = 0
    THEN <<IdMsg>>
    ELSE IF TypeOf(Get(b, "name")) # "string"
            \/ Len(Trim(Get(b, "name").s)) = 0
    THEN <<NameMsg>>
    ELSE IF \/ TypeOf(Get(b, "pricePence")) # "number"
            \/ ~NumberIsInteger(Get(b, "pricePence"))
            \/ LessThanZero(Get(b, "pricePence"))
    THEN <<PriceMsg>>
    ELSE IF TypeOf(Get(b, "description")) # "string"
    THEN <<DescriptionMsg>>
    ELSE IF ~isIsoDateString(Get(b, "updatedAt"), tz)
    THEN <<UpdatedAtMsg>>
    ELSE <<>>

\* the pushes of lines 33-46, in order
FieldErrors(b, tz) ==
    LET id == Get(b, "id")
        name == Get(b, "name")
        pricePence == Get(b, "pricePence")
        description == Get(b, "description")
        updatedAt == Get(b, "updatedAt")
    IN  (IF TypeOf(id) # "string" \/ Len(Trim(id.s)) = 0
         THEN <<IdMsg>> ELSE <<>>)
        \o (IF TypeOf(name) # "string" \/ Len(Trim(name.s)) = 0
            THEN <<NameMsg>> ELSE <<>>)
        \o (IF \/ TypeOf(pricePence) # "number"
               \/ ~NumberIsInteger(pricePence)
               \/ LessThanZero(pricePence)
            THEN <<PriceMsg>> ELSE <<>>)
        \o (IF TypeOf(description) # "string"
            THEN <<DescriptionMsg>> ELSE <<>>)
        \o (IF ~isIsoDateString(updatedAt, tz)
            THEN <<UpdatedAtMsg>> ELSE <<>>)

\* mutant: a single error is let through (errors.length > 1)
ResultOfLenient(b, errs) ==
    IF NotAnObject(b) THEN [ok |-> FALSE, errors |-> <<BodyMsg>>]
    ELSE IF Len(errs) > 1 THEN [ok |-> FALSE, errors |-> errs]
    ELSE [ok |-> TRUE,
          data |-> [id |-> Get(b, "id"),
                    name |-> Get(b, "name"),
                    pricePence |-> Get(b, "pricePence"),
                    description |-> Get(b, "description"),
                    updatedAt |-> Get(b, "updatedAt")]]

\* mutant: the accepted record stores id and name trimmed
ResultOfTrimmed(b, errs) ==
    IF NotAnObject(b) THEN [ok |-> FALSE, errors |-> <<BodyMsg>>]
    ELSE IF Len(errs) > 0 THEN [ok |-> FALSE, errors |-> errs]
    ELSE [ok |-> TRUE,
          data |-> [id |-> Str(Trim(Get(b, "id").s)),
                    name |-> Str(Trim(Get(b, "name").s)),
                    pricePence |-> Get(b, "pricePence"),
                    description |-> Get(b, "description"),
                    updatedAt |-> Get(b, "updatedAt")]]

\* what validatePayload returns for body b once `errors` holds errs
ResultOf(b, errs) ==
    IF NotAnObject(b) THEN [ok |-> FALSE, errors |-> <<BodyMsg>>]
    ELSE IF Len(errs) > 0 THEN [ok |-> FALSE, errors |-> errs]
    ELSE [ok |-> TRUE,
          data |-> [id |-> Get(b, "id"),
                    name |-> Get(b, "name"),
                    pricePence |-> Get(b, "pricePence"),
                    description |-> Get(b, "description"),
                    updatedAt |-> Get(b, "updatedAt")]]

\* the value of `errors` when validatePayload returns
ErrorsOf(b, tz) == IF NotAnObject(b) THEN <<>> ELSE FieldErrors(b, tz)

validatePayload(b, tz) == ResultOf(b, ErrorsOf(b, tz))

(***************************************************************************)
(* The requests the model sends.  Bodies are the spec's examples, every    *)
(* combination of a satisfied and a violated field rule, and a valid       *)
(* object with one field varied over the values of interest for its rule.  *)
(***************************************************************************)
MaxPad == 1

RECURSIVE Spaces(_)
Spaces(k) == IF k = 0 THEN <<>> ELSE <<" ">> \o Spaces(k - 1)

\* texts with up to MaxPad blanks (or a tab) around a core
PaddedTexts(core) ==
    {Spaces(k) \o core \o Spaces(k) : k \in 0..MaxPad}
        \cup {<<"\t">> \o core, core \o Spaces(MaxPad)}
\* 2024-01-01T00:00:00.000Z
Canonical == <<"2", "0", "2", "4", "-", "0", "1", "-", "0", "1", "T", "0", "0", ":", "0", "0", ":", "0", "0", ".", "0", "0", "0", "Z">>
\* 1999-12-31T23:59:59.999Z
CanonicalLate == <<"1", "9", "9", "9", "-", "1", "2", "-", "3", "1", "T", "2", "3", ":", "5", "9", ":", "5", "9", ".", "9", "9", "9", "Z">>
\* +010000-01-01T00:00:00.000Z
CanonicalBigYear == <<"+", "0", "1", "0", "0", "0", "0", "-", "0", "1", "-", "0", "1", "T", "0", "0", ":", "0", "0", ":", "0", "0", ".", "0", "0", "0", "Z">>
\* 2024-01-01
DateOnly == <<"2", "0", "2", "4", "-", "0", "1", "-", "0", "1">>
\* 2024-01-01T00:00:00Z
NoMillis == <<"2", "0", "2", "4", "-", "0", "1", "-", "0", "1", "T", "0", "0", ":", "0", "0", ":", "0", "0", "Z">>
\* 2024-01-01T00:00:00.000+00:00
OffsetForm == <<"2", "0", "2", "4", "-", "0", "1", "-", "0", "1", "T", "0", "0", ":", "0", "0", ":", "0", "0", ".", "0", "0", "0", "+", "0", "0", ":", "0", "0">>
\* 2024-01-01T00:00:00.000
LocalForm == <<"2", "0", "2", "4", "-", "0", "1", "-", "0", "1", "T", "0", "0", ":", "0", "0", ":", "0", "0", ".", "0", "0", "0">>
\* 2024-02-30T00:00:00.000Z
Feb30 == <<"2", "0", "2", "4", "-", "0", "2", "-", "3", "0", "T", "0", "0", ":", "0", "0", ":", "0", "0", ".", "0", "0", "0", "Z">>
\* 2024-01-01T24:00:00.000Z
Hour24 == <<"2", "0", "2", "4", "-", "0", "1", "-", "0", "1", "T", "2", "4", ":", "0", "0", ":", "0", "0", ".", "0", "0", "0", "Z">>
\* 2024-13-01T00:00:00.000Z
Month13 == <<"2", "0", "2", "4", "-", "1", "3", "-", "0", "1", "T", "0", "0", ":", "0", "0", ":", "0", "0", ".", "0", "0", "0", "Z">>
\* +002024-01-01T00:00:00.000Z
PaddedYear == <<"+", "0", "0", "2", "0", "2", "4", "-", "0", "1", "-", "0", "1", "T", "0", "0", ":", "0", "0", ":", "0", "0", ".", "0", "0", "0", "Z">>
\* +275760-09-13T00:00:00.000Z
LastInstant == <<"+", "2", "7", "5", "7", "6", "0", "-", "0", "9", "-", "1", "3", "T", "0", "0", ":", "0", "0", ":", "0", "0", ".", "0", "0", "0", "Z">>

\* +275760-09-13T00:00:00.001Z
PastLastInstant == <<"+", "2", "7", "5", "7", "6", "0", "-", "0", "9", "-", "1", "3", "T", "0", "0", ":", "0", "0", ":", "0", "0", ".", "0", "0", "1", "Z">>

\* bad
Bad == <<"b", "a", "d">>

UpdatedAtTexts ==
    {Canonical, CanonicalLate, CanonicalBigYear, DateOnly, NoMillis, OffsetForm, LocalForm, Feb30, Hour24, Month13, PaddedYear, Bad, LastInstant, PastLastInstant, <<>>}

Fields == {"id", "name", "pricePence", "description", "updatedAt"}

\* the object whose properties are the fields given a value
MkObj(id, name, pricePence, description, updatedAt) ==
    LET given == [id |-> id, name |-> name, pricePence |-> pricePence,
                  description |-> description, updatedAt |-> updatedAt]
    IN  Obj([f \in {g \in Fields : given[g] # Undefined} |-> given[f]])

GoodId == Str(<<"p", "1">>)
GoodName == Str(<<"W", "i", "d", "g", "e", "t">>)
GoodPrice == Num(500, 1)
GoodDescription == Str(<<>>)
GoodUpdatedAt == Str(Canonical)

\* {"id":"p1","name":"Widget","pricePence":500,"description":"",
\*  "updatedAt":"2024-01-01T00:00:00.000Z"}
GoodBody == MkObj(GoodId, GoodName, GoodPrice, GoodDescription, GoodUpdatedAt)

\* {"id":"","name":"Widget","pricePence":-5,"description":"","updatedAt":"bad"}
BadBody == MkObj(Str(<<>>), GoodName, Num(-5, 1), GoodDescription, Str(Bad))

IdValues ==
    {Str(s) : s \in PaddedTexts(<<"p", "1">>) \cup PaddedTexts(<<>>)}
        \cup {Undefined, Null, Num(42, 1)}

NameValues ==
    {Str(s) : s \in PaddedTexts(<<"W">>) \cup PaddedTexts(<<>>)}
        \cup {Undefined, Null, Bool(TRUE), GoodName}

PriceValues ==
    {Num(0, 1), Num(1, 1), Num(500, 1), Num(-1, 1), Num(-5, 1), Num(7, 2),
     Num(-7, 2), Num(1, 10), Inf(1), Inf(-1), Undefined, Null, Bool(TRUE),
     Str(<<"5">>)}

DescriptionValues ==
    {Str(<<>>), Str(<<"d">>), Str(<<" ">>), Undefined, Null, Num(7, 1)}

UpdatedAtValues ==
    {Str(s) : s \in UpdatedAtTexts} \cup {Undefined, Null, Num(20240101, 1)}

CrossBodies ==
    {MkObj(i, n, p, d, u) :
        i \in {GoodId, Str(<<>>)},
        n \in {GoodName, Undefined},
        p \in {GoodPrice, Num(-5, 1)},
        d \in {GoodDescription, Num(7, 1)},
        u \in {GoodUpdatedAt, Str(Bad)}}

VariedBodies ==
    {MkObj(i, GoodName, GoodPrice, GoodDescription, GoodUpdatedAt) :
        i \in IdValues}
    \cup {MkObj(GoodId, n, GoodPrice, GoodDescription, GoodUpdatedAt) :
        n \in NameValues}
    \cup {MkObj(GoodId, GoodName, p, GoodDescription, GoodUpdatedAt) :
        p \in PriceValues}
    \cup {MkObj(GoodId, GoodName, GoodPrice, d, GoodUpdatedAt) :
        d \in DescriptionValues}
    \cup {MkObj(GoodId, GoodName, GoodPrice, GoodDescription, u) :
        u \in UpdatedAtValues}
    \cup {MkObj(Str(<<" ", "p", "1", " ">>), Str(<<" ", "W">>), Num(0, 1),
                Str(<<"d">>), Str(CanonicalLate))}

ObjectBodies == CrossBodies \cup VariedBodies \cup {BadBody}

NonObjectBodies ==
    {Str(<<"h", "e", "l", "l", "o">>), Str(<<>>), Num(42, 1), Num(0, 1),
     Bool(TRUE), Bool(FALSE), Null}

ArrayBodies == {Arr(<<>>), Arr(<<Num(1, 1)>>), Arr(<<GoodBody>>)}

Bodies == ObjectBodies \cup NonObjectBodies \cup ArrayBodies

\* a request whose text is the JSON encoding of value b
JsonRequest(b) == [raw |-> "json", value |-> b]

\* a request whose text is not JSON: cut short, or empty
MalformedRequests ==
    {[raw |-> "truncated", value |-> Undefined],
     [raw |-> "empty", value |-> Undefined]}

Requests == {JsonRequest(b) : b \in Bodies} \cup MalformedRequests

\* the host's time zones tried: UTC and UTC+05:30
TimeZones == {0, 330}

\* the request whose first response is remembered
Tracked == {JsonRequest(BadBody)}

(***************************************************************************)
(* productUpdatedHttpHandler, lines 58-91.  An action is one invocation,   *)
(* from the request to the response; the variables hold the invocation's   *)
(* locals as they are when it returns.  `errors` is written only by        *)
(* validatePayload, so after an invocation that never called it, it still  *)
(* holds what the previous call left.                                      *)
(***************************************************************************)
NoRequest == [raw |-> "none", value |-> Undefined]
NoResult == [pending |-> TRUE]
NoResponse == [pending |-> TRUE]

LogEntry(level, text, args) == [level |-> level, text |-> text, args |-> args]

\* context.log of line 62
ReceivedEntry == LogEntry("log", "Received product-updated event", <<>>)

\* lines 68-71
InvalidJsonResponse ==
    [status |-> 400, jsonBody |-> [error |-> "Invalid JSON body"]]

\* lines 78-81
ValidationErrorResponse(errs) ==
    [status |-> 400,
     jsonBody |-> [error |-> "ValidationError", details |-> errs]]

\* mutant: acceptance answered with 200
AcceptedResponseOk == [status |-> 200, jsonBody |-> [message |-> "accepted"]]

\* lines 87-90
AcceptedResponse == [status |-> 202, jsonBody |-> [message |-> "accepted"]]

\* the history variable keeps the first response to a tracked request, and
\* whether the request came again later
Remember(r, resp) ==
    IF r \notin DOMAIN memo THEN memo
    ELSE IF memo[r] = NoResponse
    THEN [memo EXCEPT ![r] = [first |-> resp, again |-> FALSE]]
    ELSE [memo EXCEPT ![r] = [first |-> memo[r].first, again |-> TRUE]]

Init ==
    /\ request = NoRequest
    /\ body = Undefined
    /\ errors = <<>>
    /\ result = NoResult
    /\ response = NoResponse
    /\ log = <<>>
    /\ tza \in TimeZones
    /\ memo = [r \in Tracked |-> NoResponse]

\* mutant: the catch block does not return, and the undefined body goes on
\* to validation
InvalidJsonFallsThrough(r) ==
    /\ r.raw # "json"
    /\ request' = r
    /\ body' = Undefined
    /\ errors' = ErrorsOf(body', tza)
    /\ result' = ResultOf(body', errors')
    /\ log' = <<ReceivedEntry,
                LogEntry("warn", "Invalid JSON body", <<"SyntaxError">>),
                LogEntry("warn", "Validation failed", <<result'.errors>>)>>
    /\ response' = ValidationErrorResponse(result'.errors)
    /\ memo' = Remember(r, response')
    /\ UNCHANGED tza

\* request.json() throws: lines 62-72
InvalidJson(r) ==
    /\ r.raw # "json"
    /\ request' = r
    /\ body' = Undefined
    /\ result' = NoResult
    /\ log' = <<ReceivedEntry,
                LogEntry("warn", "Invalid JSON body", <<"SyntaxError">>)>>
    /\ response' = InvalidJsonResponse
    /\ memo' = Remember(r, response')
    /\ UNCHANGED <<errors, tza>>

\* request.json() resolves: lines 62-65
Decoded(r) ==
    /\ r.raw = "json"
    /\ request' = r
    /\ body' = r.value

\* mutant: `errors` is shared by all calls instead of created by each
ValidateCallSharedErrors ==
    /\ errors' = errors \o ErrorsOf(body', tza)
    /\ result' = ResultOf(body', errors')

\* const result = validatePayload(body): line 74, running lines 22-56
ValidateCall ==
    /\ errors' = ErrorsOf(body', tza)
    /\ result' = ResultOf(body', errors')

\* the body decodes and validation fails: lines 62-65, 74-82
Rejected(r) ==
    /\ Decoded(r)
    /\ ValidateCall
    /\ ~result'.ok
    /\ log' = <<ReceivedEntry,
                LogEntry("warn", "Validation failed", <<result'.errors>>)>>
    /\ response' = ValidationErrorResponse(result'.errors)
    /\ memo' = Remember(r, response')
    /\ UNCHANGED tza

\* the body decodes and validation passes: lines 62-65, 74-75, 84-90
Accepted(r) ==
    /\ Decoded(r)
    /\ ValidateCall
    /\ result'.ok
    /\ log' = <<ReceivedEntry,
                LogEntry("log", "Product updated:", <<result'.data>>)>>
    /\ response' = AcceptedResponse
    /\ memo' = Remember(r, response')
    /\ UNCHANGED tza

Next ==
    \/ \E r \in Requests : InvalidJson(r)
    \/ \E r \in Requests : Rejected(r)
    \/ \E r \in Requests : Accepted(r)

Spec == Init /\ [][Next]_vars

(***************************************************************************)
(* The claims.  They are stated on the state an invocation leaves: the     *)
(* request it handled, its locals and its response.                        *)
(***************************************************************************)
Handled == request # NoRequest

\* the latest invocation called validatePayload
Validated == Handled /\ request.raw = "json"

\* the messages validatePayload returned
ErrorList == IF result.ok THEN <<>> ELSE result.errors

Range(seq) == {seq[i] : i \in 1..Len(seq)}

IsText(v) == v.t = "string"

AllWhiteSpace(s) == \A i \in 1..Len(s) : s[i] \in WhiteSpace

\* text that is not empty once its surrounding white space is removed
IsNonEmptyText(v) == IsText(v) /\ ~AllWhiteSpace(v.s)

HasFraction(v) == v.t = "number" /\ v.k = "finite" /\ v.n % v.d # 0

IsNegative(v) == v.t = "number" /\ v.n < 0

IsNonNegativeInteger(v) ==
    v.t = "number" /\ v.k = "finite" /\ v.n % v.d = 0 /\ v.n >= 0

\* s is YYYY-MM-DDTHH:mm:ss.sssZ from index 1 + k on, naming a real
\* calendar day and time of day within the range of time values
ClockShape(s, k, y) ==
    /\ Len(s) = k + 24
    /\ s[k + 5] = "-" /\ s[k + 8] = "-" /\ s[k + 11] = "T"
    /\ s[k + 14] = ":" /\ s[k + 17] = ":" /\ s[k + 20] = "."
    /\ s[k + 24] = "Z"
    /\ IsDigits(s, k + 6, 2) /\ IsDigits(s, k + 9, 2)
    /\ IsDigits(s, k + 12, 2) /\ IsDigits(s, k + 15, 2)
    /\ IsDigits(s, k + 18, 2) /\ IsDigits(s, k + 21, 3)
    /\ NumAt(s, k + 6, 2) \in 1..12
    /\ NumAt(s, k + 9, 2) \in 1..DaysInMonth(y, NumAt(s, k + 6, 2))
    /\ NumAt(s, k + 12, 2) \in 0..23
    /\ NumAt(s, k + 15, 2) \in 0..59
    /\ NumAt(s, k + 18, 2) \in 0..59
    /\ LET day == MakeDay(y, NumAt(s, k + 6, 2), NumAt(s, k + 9, 2))
       IN  /\ day >= -MaxDay
           /\ \/ day < MaxDay
              \/ /\ day = MaxDay
                 /\ NumAt(s, k + 12, 2) = 0 /\ NumAt(s, k + 15, 2) = 0
                 /\ NumAt(s, k + 18, 2) = 0 /\ NumAt(s, k + 21, 3) = 0

\* the canonical serialization: a four-digit year 0000..9999, or a signed
\* six-digit year outside that range
IsCanonicalTimestamp(v) ==
    /\ IsText(v)
    /\ \/ /\ IsDigits(v.s, 1, 4)
          /\ ClockShape(v.s, 0, NumAt(v.s, 1, 4))
       \/ /\ v.s # <<>>
          /\ v.s[1] \in {"+", "-"}
          /\ IsDigits(v.s, 2, 6)
          /\ IF v.s[1] = "+" THEN NumAt(v.s, 2, 6) > 9999
                             ELSE NumAt(v.s, 2, 6) > 0
          /\ ClockShape(v.s, 3,
                (IF v.s[1] = "-" THEN -1 ELSE 1) * NumAt(v.s, 2, 6))

\* C1: for every decoded body that is not a non-null object (a string, a
\* number, a boolean, null or an array), validatePayload returns Rejected
\* with the single error "Body must be a JSON object." and checks no field.
C1_NonObjectSingleError ==
    (Validated /\ body.t # "object") =>
        /\ ~result.ok
        /\ result.errors = <<"Body must be a JSON object.">>
        /\ errors = <<>>

\* C2: validatePayload returns Accepted if and only if all five field
\* constraints hold together: id and name are text that is not empty after
\* trimming, pricePence is an integer >= 0, description is text, updatedAt
\* is a canonical timestamp string.
C2_AcceptedIffAllFive ==
    Validated =>
        (result.ok <=>
            /\ IsNonEmptyText(Get(body, "id"))
            /\ IsNonEmptyText(Get(body, "name"))
            /\ IsNonNegativeInteger(Get(body, "pricePence"))
            /\ IsText(Get(body, "description"))
            /\ IsCanonicalTimestamp(Get(body, "updatedAt")))

\* a body with blanks around id and name, price 0, is accepted
C2_Witness ==
    /\ Validated
    /\ result.ok
    /\ Get(body, "pricePence") = Num(0, 1)
    /\ Get(body, "updatedAt") = Str(CanonicalLate)

RuleOrder == <<"id", "name", "pricePence", "description", "updatedAt">>

MessageOf(f) ==
    CASE f = "id" -> "id must be a non-empty string"
      [] f = "name" -> "name must be a non-empty string"
      [] f = "pricePence" -> "pricePence must be a non-negative integer"
      [] f = "description" -> "description must be a string"
      [] f = "updatedAt" ->
            "updatedAt must be an ISO 8601 string (Date.toISOString)"

Violates(b, f) ==
    CASE f = "id" -> ~IsNonEmptyText(Get(b, "id"))
      [] f = "name" -> ~IsNonEmptyText(Get(b, "name"))
      [] f = "pricePence" -> ~IsNonNegativeInteger(Get(b, "pricePence"))
      [] f = "description" -> ~IsText(Get(b, "description"))
      [] f = "updatedAt" -> ~IsCanonicalTimestamp(Get(b, "updatedAt"))

\* the messages of the rules b violates, in the order of RuleOrder
RECURSIVE MessagesFrom(_, _)
MessagesFrom(b, i) ==
    IF i > Len(RuleOrder) THEN <<>>
    ELSE (IF Violates(b, RuleOrder[i]) THEN <<MessageOf(RuleOrder[i])>>
          ELSE <<>>) \o MessagesFrom(b, i + 1)

\* C3: for every object body that violates at least one field rule, the
\* error list holds exactly one message per violated rule, none for a
\* satisfied rule, in the order id, name, pricePence, description,
\* updatedAt; checking does not stop at the first violation.
C3_AllViolationsInOrder ==
    (Validated /\ body.t = "object"
        /\ \E f \in Fields : Violates(body, f)) =>
        /\ ~result.ok
        /\ result.errors = MessagesFrom(body, 1)

\* the body violating the id, pricePence and updatedAt rules gets those three
C3_Witness ==
    /\ Validated
    /\ body = BadBody
    /\ ErrorList = <<MessageOf("id"), MessageOf("pricePence"),
                     MessageOf("updatedAt")>>

\* C4: whenever validatePayload returns Accepted, the record it carries has
\* id, name, pricePence, description and updatedAt equal to the input
\* body's values, unchanged; an id or name with surrounding white space is
\* stored untrimmed.
C4_AcceptedCopiesVerbatim ==
    (Validated /\ result.ok) =>
        /\ DOMAIN result.data = Fields
        /\ \A f \in Fields :
            f \in DOMAIN request.value.o /\ result.data[f] = request.value.o[f]

\* an accepted id with a blank on each side is stored with the blanks
C4_Witness ==
    /\ Validated
    /\ result.ok
    /\ result.data.id = Str(<<" ", "p", "1", " ">>)

\* which row of the response table resp is
ResponseKind(resp) ==
    IF resp.status = 202 /\ resp.jsonBody = [message |-> "accepted"]
    THEN "accepted"
    ELSE IF /\ resp.status = 400
            /\ DOMAIN resp.jsonBody = {"error", "details"}
            /\ resp.jsonBody.error = "ValidationError"
    THEN "validationError"
    ELSE IF resp.status = 400 /\ resp.jsonBody = [error |-> "Invalid JSON body"]
    THEN "invalidJson"
    ELSE "other"

\* C5: the handler returns exactly one of three responses, fixed by the
\* request: 202 {message: "accepted"} iff the body decodes and
\* validatePayload accepts it; 400 {error: "ValidationError", details: the
\* validator's error list} iff it decodes and validatePayload rejects it;
\* 400 {error: "Invalid JSON body"} iff decoding fails.
C5_ResponseFixedByRequest ==
    Handled =>
        LET decodes == request.raw = "json"
            verdict == validatePayload(request.value, tza)
            kind == ResponseKind(response)
        IN  /\ kind \in {"accepted", "validationError", "invalidJson"}
            /\ kind = "accepted" <=> (decodes /\ verdict.ok)
            /\ kind = "validationError" <=> (decodes /\ ~verdict.ok)
            /\ kind = "invalidJson" <=> ~decodes
            /\ kind = "validationError" =>
                    response.jsonBody.details = verdict.errors

\* the accepted example answered 202, after the rejected example was
\* answered with its three messages
C5_Witness ==
    /\ request = JsonRequest(GoodBody)
    /\ response = [status |-> 202, jsonBody |-> [message |-> "accepted"]]
    /\ memo[JsonRequest(BadBody)] # NoResponse
    /\ memo[JsonRequest(BadBody)].first =
            [status |-> 400,
             jsonBody |-> [error |-> "ValidationError",
                           details |-> <<MessageOf("id"),
                                         MessageOf("pricePence"),
                                         MessageOf("updatedAt")>>]]

\* C6: when decoding the body fails, the handler answers 400 with the fixed
\* message "Invalid JSON body" at once: validatePayload is not invoked in
\* that invocation, the response has no details, and neither the
\* acceptance log nor the 202 follows.
C6_InvalidJsonStopsHandler ==
    (Handled /\ request.raw # "json") =>
        /\ response = [status |-> 400,
                       jsonBody |-> [error |-> "Invalid JSON body"]]
        /\ "details" \notin DOMAIN response.jsonBody
        /\ result = NoResult
        /\ body = Undefined
        /\ Len(log) = 2
        /\ log[2].level = "warn" /\ log[2].text = "Invalid JSON body"
        /\ \A i \in 1..Len(log) :
            log[i].text \notin {"Product updated:", "Validation failed"}

\* a truncated body answered, after an invocation that left errors behind
C6_Witness ==
    /\ request.raw = "truncated"
    /\ response.status = 400
    /\ errors # <<>>

\* C7 as claimed: the pricePence message is present if and only if
\* pricePence is absent, is not a number, has a fractional part or is
\* negative.
C7_PriceErrorAsClaimed ==
    (Validated /\ body.t = "object") =>
        (MessageOf("pricePence") \in Range(ErrorList) <=>
            \/ "pricePence" \notin DOMAIN body.o
            \/ Get(body, "pricePence").t # "number"
            \/ HasFraction(Get(body, "pricePence"))
            \/ IsNegative(Get(body, "pricePence")))

\* C7, amended: the pricePence message is present if and only if pricePence
\* is absent, is not a number, is not finite (the Infinity a literal such
\* as 1e999 decodes to), has a fractional part or is negative; -1 and 3.5
\* get the message, 0 and every positive integer do not.
C7_PriceErrorIffNotNonNegativeInteger ==
    (Validated /\ body.t = "object") =>
        /\ MessageOf("pricePence") \in Range(ErrorList) <=>
            \/ "pricePence" \notin DOMAIN body.o
            \/ Get(body, "pricePence").t # "number"
            \/ Get(body, "pricePence").k # "finite"
            \/ HasFraction(Get(body, "pricePence"))
            \/ IsNegative(Get(body, "pricePence"))
        /\ Get(body, "pricePence") \in {Num(-1, 1), Num(7, 2)} =>
            MessageOf("pricePence") \in Range(ErrorList)
        /\ Get(body, "pricePence") \in {Num(0, 1), Num(1, 1), Num(500, 1)} =>
            MessageOf("pricePence") \notin Range(ErrorList)

\* pricePence 3.5 rejected with the pricePence message alone
C7_Witness ==
    /\ Validated
    /\ Get(body, "pricePence") = Num(7, 2)
    /\ ErrorList = <<MessageOf("pricePence")>>

\* C8: for id and for name, the "<f> must be a non-empty string" message is
\* present if and only if the field is missing, is not text, or is text
\* that is empty after trimming (a whitespace-only id is rejected);
\* description gets its message only when missing or not text, and the
\* empty string is allowed.
C8_TextFieldErrors ==
    (Validated /\ body.t = "object") =>
        /\ \A f \in {"id", "name"} :
            MessageOf(f) \in Range(ErrorList) <=>
                \/ f \notin DOMAIN body.o
                \/ ~IsText(body.o[f])
                \/ AllWhiteSpace(body.o[f].s)
        /\ MessageOf("description") \in Range(ErrorList) <=>
                \/ "description" \notin DOMAIN body.o
                \/ ~IsText(body.o["description"])

\* an id of one blank rejected with the id message, the empty description
\* passing
C8_Witness ==
    /\ Validated
    /\ Get(body, "id") = Str(<<" ">>)
    /\ Get(body, "description") = Str(<<>>)
    /\ ErrorList = <<MessageOf("id")>>

\* C9: updatedAt passes if and only if it is text that parses to a valid
\* timestamp and whose re-serialization is the text itself; text that
\* parses but is not such a fixed point ("2024-01-01") gets the updatedAt
\* message, "2024-01-01T00:00:00.000Z" does not.
C9_UpdatedAtRoundTrip ==
    (Validated /\ body.t = "object") =>
        LET u == Get(body, "updatedAt")
            passes == MessageOf("updatedAt") \notin Range(ErrorList)
        IN  /\ passes <=>
                /\ IsText(u)
                /\ ~DateParse(u.s, tza).nan
                /\ ToISOString(DateParse(u.s, tza)) = u.s
            /\ u = Str(DateOnly) => ~passes
            /\ u = Str(Canonical) => passes

\* a date that parses (to a day that is not NaN) and does not round-trip
\* is rejected with the updatedAt message alone
C9_Witness ==
    /\ Validated
    /\ Get(body, "updatedAt") = Str(DateOnly)
    /\ ~DateParse(DateOnly, tza).nan
    /\ ErrorList = <<MessageOf("updatedAt")>>

\* C10: the response to a request depends on that request's body alone: a
\* request answered again, whatever was handled in between, gets the
\* response it got the first time; and validatePayload leaves the body as
\* decoded and logs nothing (the log holds the handler's two entries).
C10_IndependentOfHistory ==
    /\ (Handled /\ request \in DOMAIN memo) =>
            response = memo[request].first
    /\ Validated =>
        /\ body = request.value
        /\ Len(log) = 2
        /\ log[1] = ReceivedEntry
        /\ log[2].text \in {"Validation failed", "Product updated:"}

\* the tracked request answered a second time
C10_Witness ==
    /\ request \in DOMAIN memo
    /\ memo[request].again
====
